---------------------------- MODULE Spec2Model ----------------------------
(***************************************************************************)
(* Model of the UDAP traffic-light pipeline:                               *)
(*   src/api_client.py                 the record loader (fetch/cache),    *)
(*                                     the table path and get_statistics   *)
(*   src/main.py                       generate_geojson                    *)
(*   src/scripts/update_stats_history.py  the weekly history tracker       *)
(*                                                                         *)
(* A JSON object is a function from its keys (strings) to its values, a    *)
(* JSON array is a sequence, JSON null is the token None.  A Python dict   *)
(* whose item order the code sets (by_authority, by_tlc_organization) is a *)
(* sequence of <<key, value>> pairs.                                       *)
(***************************************************************************)
EXTENDS Integers, Sequences, FiniteSets, TLC

VARIABLES
    served,       \* the arrays the subjects endpoint may answer with
    cacheFile,    \* data/udap_all_locations.json
    historyFile,  \* webapp/public/data/stats_history.json
    now,          \* the instant datetime.now() gives: iso year, iso week, tick
    last,         \* the last loader or tracker invocation: arguments, locals, result
    out,          \* the last result of calculate_stats / the table path
    geojsonFile,  \* webapp/public/data/traffic_lights.geojson
    summaryFile,  \* webapp/public/data/summary.json
    current,      \* calculate_changes: argument current
    previous,     \* calculate_changes: argument previous
    changes       \* calculate_changes: result

vars == <<served, cacheFile, historyFile, now, last, out, geojsonFile,
          summaryFile, current, previous, changes>>

---------------------------------------------------------------------------
(* Bounds *)

MaxRecords == 2
MaxCalls == 4

---------------------------------------------------------------------------
(* JSON and Python values *)

None == "None"
FetchError == "<FetchError>"

EmptyDict == [k \in {} |-> None]

\* dict.get(key, default)
Get(d, k, default) == IF k \in DOMAIN d THEN d[k] ELSE default

\* truthiness of a string or None
Truthy(v) == v # None /\ v # ""

\* ordered dict: lookup, item assignment
HasKey(od, k) == \E i \in 1..Len(od) : od[i][1] = k

ODGet(od, k, default) ==
    IF HasKey(od, k)
    THEN od[CHOOSE i \in 1..Len(od) : od[i][1] = k][2]
    ELSE default

ODSet(od, k, v) ==
    IF HasKey(od, k)
    THEN [od EXCEPT ![CHOOSE i \in 1..Len(od) : od[i][1] = k] = <<k, v>>]
    ELSE Append(od, <<k, v>>)

ODKeys(od) == {od[i][1] : i \in 1..Len(od)}

RECURSIVE ODSum(_)
ODSum(od) == IF od = <<>> THEN 0 ELSE od[1][2] + ODSum(Tail(od))

\* sorted(items, key=count, reverse=True): stable, equal counts keep their order
RECURSIVE InsertByCount(_, _)
InsertByCount(sorted, item) ==
    IF sorted = <<>> THEN <<item>>
    ELSE IF Head(sorted)[2] >= item[2]
         THEN <<Head(sorted)>> \o InsertByCount(Tail(sorted), item)
         ELSE <<item>> \o sorted

RECURSIVE SortByCountDesc(_)
SortByCountDesc(od) ==
    IF od = <<>> THEN <<>>
    ELSE InsertByCount(SortByCountDesc(SubSeq(od, 1, Len(od) - 1)), od[Len(od)])

RECURSIVE SumSeq(_)
SumSeq(s) == IF s = <<>> THEN 0 ELSE Head(s) + SumSeq(Tail(s))

\* ','.join(strings)
RECURSIVE Join(_)
Join(s) ==
    IF s = <<>> THEN ""
    ELSE IF Len(s) = 1 THEN s[1]
    ELSE s[1] \o "," \o Join(Tail(s))

SeqsUpTo(S, n) == UNION {[1..k -> S] : k \in 0..n}

---------------------------------------------------------------------------
(* update_stats_history.py: calculate_stats *)

\* the count is set to 1 instead of counted up
CountAuthoritySetOne(by_authority, item) ==
    ODSet(by_authority, Get(item, "roadRegulatorName", "Unknown"), 1)

\* stats["by_authority"][authority] = stats["by_authority"].get(authority, 0) + 1
CountAuthority(by_authority, item) ==
    LET authority == Get(item, "roadRegulatorName", "Unknown")
    IN  ODSet(by_authority, authority, ODGet(by_authority, authority, 0) + 1)

\* the loop over item["subjectComponents"]: the first component whose
\* componentTypeName is TLC decides, then break
RECURSIVE CountTlcOrganization(_, _)
CountTlcOrganization(by_org, components) ==
    IF components = <<>> THEN by_org
    ELSE LET component == Head(components)
         IN  IF Get(component, "componentTypeName", None) = "TLC"
             THEN LET org == Get(component, "organizationName", "Unknown")
                  IN  IF Truthy(org)
                      THEN ODSet(by_org, org, ODGet(by_org, org, 0) + 1)
                      ELSE by_org
             ELSE CountTlcOrganization(by_org, Tail(components))

\* the if/elif chain on category["categoryId"] (Table B)
PriorityKeyB(cat_id) ==
    IF cat_id = "PBC:EMERGENCY" THEN "emergency"
    ELSE IF cat_id = "PBC:ROAD_OPERATOR" THEN "road_operator"
    ELSE IF cat_id = "PBC:PUBLIC_TRANSPORT" THEN "public_transport"
    ELSE IF cat_id = "PBC:LOGISTICS" THEN "logistics"
    ELSE IF cat_id = "PBC:AGRICULTURE" THEN "agriculture"
    ELSE None

\* the loop over item["categories"]: one increment per listed category
RECURSIVE CountPriority(_, _)
CountPriority(by_priority, categories) ==
    IF categories = <<>> THEN by_priority
    ELSE LET cat_id == Get(Head(categories), "categoryId", "")
             key == PriorityKeyB(cat_id)
             counted == IF key = None THEN by_priority
                        ELSE [by_priority EXCEPT ![key] = @ + 1]
         IN  CountPriority(counted, Tail(categories))

ZeroPriority ==
    [emergency |-> 0, road_operator |-> 0, public_transport |-> 0,
     logistics |-> 0, agriculture |-> 0]

\* the for loop over data, from the stats gathered so far
RECURSIVE CountItems(_, _)
CountItems(stats, data) ==
    IF data = <<>> THEN stats
    ELSE LET item == Head(data)
         IN  CountItems(
                 [stats EXCEPT
                    !.by_authority = CountAuthority(@, item),
                    !.by_tlc_organization =
                        CountTlcOrganization(@, Get(item, "subjectComponents", <<>>)),
                    !.by_priority =
                        CountPriority(@, Get(item, "categories", <<>>))],
                 Tail(data))

calculate_stats(data) ==
    LET counted == CountItems([total |-> Len(data),
                               by_authority |-> <<>>,
                               by_tlc_organization |-> <<>>,
                               by_priority |-> ZeroPriority], data)
    IN  [counted EXCEPT
           !.by_authority = SortByCountDesc(@),
           !.by_tlc_organization = SortByCountDesc(@)]

---------------------------------------------------------------------------
(* api_client.py: the table path *)

\* next((c.get('organizationName', '') for c in components
\*       if c.get('typeName') == type_name), '')
RECURSIVE FirstOrganization(_, _)
FirstOrganization(components, type_name) ==
    IF components = <<>> THEN ""
    ELSE IF Get(Head(components), "typeName", None) = type_name
         THEN Get(Head(components), "organizationName", "")
         ELSE FirstOrganization(Tail(components), type_name)

\* [cat.get(key, '') for cat in loc.get('categories', [])]
CategoryField(loc, key) ==
    LET categories == Get(loc, "categories", <<>>)
    IN  [i \in 1..Len(categories) |-> Get(categories[i], key, "")]

InSeq(x, s) == \E i \in 1..Len(s) : s[i] = x

\* rows.append({...}) for the subject at position index of locations (Table A)
NormalizeRow(loc, index) ==
    LET category_ids == CategoryField(loc, "id")
        category_names == CategoryField(loc, "name")
        components == Get(loc, "subjectComponents", <<>>)
    IN  [index |-> index,
         id |-> Get(loc, "id", ""),
         latitude |-> Get(loc, "latitude", None),
         longitude |-> Get(loc, "longitude", None),
         roadRegulatorName |-> Get(loc, "roadRegulatorName", ""),
         has_emergency |-> InSeq("PBC:EMERGENCY", category_ids),
         has_road_operator |-> InSeq("PBC:ROAD_OPERATOR", category_ids),
         has_public_transport |-> InSeq("PBC:PUBLIC", category_ids),
         has_logistics |-> InSeq("PBC:LOGISTICS", category_ids),
         has_agriculture |-> InSeq("PBC:MACHINERY", category_ids),
         tlc_organization |-> FirstOrganization(components, "TLC"),
         its_organization |-> FirstOrganization(components, "ITS-applicatie"),
         ris_organization |-> FirstOrganization(components, "RIS"),
         category_ids |-> Join(category_ids),
         category_names |-> Join(category_names)]

\* df.dropna(subset=['latitude'])
HasLatitude(row) == row.latitude # None

\* df.dropna(subset=['latitude', 'longitude'])
HasCoordinates(row) == row.latitude # None /\ row.longitude # None

\* geometry = Point(longitude, latitude)
WithGeometry(row) ==
    [k \in DOMAIN row \cup {"geometry"} |->
        IF k = "geometry" THEN <<row.longitude, row.latitude>> ELSE row[k]]

\* get_traffic_lights_gdf, from the array the loader returned; the rows keep
\* the index of the subject they stem from
BuildGdf(locations) ==
    IF locations = <<>> THEN <<>>
    ELSE LET rows == [i \in 1..Len(locations) |-> NormalizeRow(locations[i], i)]
             kept == SelectSeq(rows, HasCoordinates)
         IN  [i \in 1..Len(kept) |-> WithGeometry(kept[i])]

\* gdf.groupby(column).size().to_dict()
GroupSizes(gdf, column) ==
    [k \in {gdf[i][column] : i \in 1..Len(gdf)} |->
        Cardinality({i \in 1..Len(gdf) : gdf[i][column] = k})]

\* int(gdf[column].sum()) of a boolean column
FlagSum(gdf, column) == Cardinality({i \in 1..Len(gdf) : gdf[i][column]})

\* get_statistics, from the table
Statistics(gdf) ==
    IF Len(gdf) = 0 THEN [total |-> 0]
    ELSE [total |-> Len(gdf),
          by_authority |-> GroupSizes(gdf, "roadRegulatorName"),
          by_tlc_organization |-> GroupSizes(gdf, "tlc_organization"),
          priority_stats |->
              [emergency |-> FlagSum(gdf, "has_emergency"),
               road_operator |-> FlagSum(gdf, "has_road_operator"),
               public_transport |-> FlagSum(gdf, "has_public_transport"),
               logistics |-> FlagSum(gdf, "has_logistics"),
               agriculture |-> FlagSum(gdf, "has_agriculture")]]

---------------------------------------------------------------------------
(* main.py: generate_geojson *)

PriorityFlags ==
    <<"emergency", "road_operator", "public_transport", "logistics", "agriculture">>

\* priorities.append(name) for each true flag, in the fixed order
Priorities(row) ==
    SelectSeq(PriorityFlags,
              LAMBDA name : row["has_" \o name])

\* the feature of one row; index is the table index of the row, kept to say
\* which subject a feature stems from
Feature(row) ==
    LET priorities == Priorities(row)
    IN  [type |-> "Feature",
         index |-> row.index,
         geometry |-> [type |-> "Point",
                       coordinates |-> <<row.longitude, row.latitude>>],
         properties |->
            [type |-> "traffic_light",
             id |-> row.id,
             latitude |-> row.latitude,
             longitude |-> row.longitude,
             roadRegulatorName |-> row.roadRegulatorName,
             has_emergency |-> row.has_emergency,
             has_road_operator |-> row.has_road_operator,
             has_public_transport |-> row.has_public_transport,
             has_logistics |-> row.has_logistics,
             has_agriculture |-> row.has_agriculture,
             priorities |-> priorities,
             priority_count |-> Len(priorities),
             tlc_organization |-> row.tlc_organization,
             its_organization |-> row.its_organization,
             ris_organization |-> row.ris_organization]]

GeojsonOf(gdf) ==
    [type |-> "FeatureCollection",
     metadata |->
        [total_traffic_lights |-> Len(gdf),
         authorities |-> {gdf[i].roadRegulatorName : i \in 1..Len(gdf)},
         tlc_organizations |-> {gdf[i].tlc_organization : i \in 1..Len(gdf)},
         priority_categories |-> PriorityFlags],
     features |-> [i \in 1..Len(gdf) |-> Feature(gdf[i])]]

SummaryOf(gdf, stats) ==
    [total_traffic_lights |-> Len(gdf),
     by_authority |-> stats.by_authority,
     by_tlc_organization |-> stats.by_tlc_organization,
     priority_stats |-> stats.priority_stats]

---------------------------------------------------------------------------
(* api_client.py: fetch_udap_data *)

NoFile == [state |-> "absent"]
CorruptFile == [state |-> "corrupt"]
File(content) == [state |-> "file", content |-> content]

Url == "https://map.udap.nl/api/v1/subjects"

\* the cache is used whenever it is there, whatever use_cache says
CacheHitAnyway(use_cache, cache) == cache.state = "file"

\* use_cache and cache_file.exists() and json.load succeeds
CacheHit(use_cache, cache) == use_cache /\ cache.state = "file"

\* cache_data.get('locations', [])
CachedLocations(cache) == Get(cache.content, "locations", <<>>)

\* cache_data = {'fetched_at': ..., 'source': url, 'total_count': ..., 'locations': data}
Envelope(data, instant) ==
    [fetched_at |-> instant.t, source |-> Url,
     total_count |-> Len(data), locations |-> data]

\* fetch_udap_data(use_cache) on the cache file `cache`, the endpoint answering
\* `response` (an array, or FetchError when the request fails) if it is asked:
\* the returned array or the raised error, the cache file afterwards, and the
\* numbers of network calls and of cache writes
FetchErrorResponse == [error |-> FetchError]
ArrayResponse(data) == [data |-> data]
IsError(response) == "error" \in DOMAIN response

\* a failed request is tried once more before the error is raised
fetch_udap_data_retrying(use_cache, cache, response, instant) ==
    IF CacheHit(use_cache, cache)
    THEN [raised |-> FALSE, ret |-> CachedLocations(cache), cache |-> cache,
          netCalls |-> 0, cacheWrites |-> 0]
    ELSE IF IsError(response)
    THEN [raised |-> TRUE, ret |-> <<>>, cache |-> cache,
          netCalls |-> 2, cacheWrites |-> 0]
    ELSE [raised |-> FALSE, ret |-> response.data,
          cache |-> File(Envelope(response.data, instant)),
          netCalls |-> 1, cacheWrites |-> 1]

fetch_udap_data(use_cache, cache, response, instant) ==
    IF CacheHit(use_cache, cache)
    THEN [raised |-> FALSE, ret |-> CachedLocations(cache), cache |-> cache,
          netCalls |-> 0, cacheWrites |-> 0]
    ELSE IF IsError(response)
    THEN [raised |-> TRUE, ret |-> <<>>, cache |-> cache,
          netCalls |-> 1, cacheWrites |-> 0]
    ELSE [raised |-> FALSE, ret |-> response.data,
          cache |-> File(Envelope(response.data, instant)),
          netCalls |-> 1, cacheWrites |-> 1]

---------------------------------------------------------------------------
(* update_stats_history.py: the history tracker *)

Pad2(n) == IF n < 10 THEN "0" \o ToString(n) ELSE ToString(n)

\* f"{dt.isocalendar()[0]}-W{dt.isocalendar()[1]:02d}"
get_week_key(dt) == ToString(dt.isoYear) \o "-W" \o Pad2(dt.isoWeek)

NoneEntry == [none |-> TRUE]

\* `not previous`: None or an empty dict
Falsy(entry) == entry = NoneEntry \/ DOMAIN entry = {}

load_history(file, instant) ==
    IF file.state = "file" THEN file.content
    ELSE [metadata |->
             [created_at |-> instant.t,
              description |-> "Weekly statistics history for UDAP traffic lights",
              source |-> "UDAP",
              source_url |-> "https://map.udap.nl"],
          weeks |-> <<>>]

\* the deltas of the authorities of the current snapshot only
calculate_changes_current_only(cur, prev) ==
    IF Falsy(prev) THEN [total_change |-> 0, is_first_week |-> TRUE]
    ELSE LET current_auth == cur.by_authority
             prev_auth == prev.stats.by_authority
             changed == {auth \in ODKeys(current_auth) :
                            ODGet(current_auth, auth, 0) # ODGet(prev_auth, auth, 0)}
         IN  [total_change |-> cur.total - prev.stats.total,
              is_first_week |-> FALSE,
              authority_changes |->
                 [auth \in changed |->
                    [previous |-> ODGet(prev_auth, auth, 0),
                     current |-> ODGet(current_auth, auth, 0),
                     change |-> ODGet(current_auth, auth, 0)
                                  - ODGet(prev_auth, auth, 0)]]]

calculate_changes(cur, prev) ==
    IF Falsy(prev) THEN [total_change |-> 0, is_first_week |-> TRUE]
    ELSE LET current_auth == cur.by_authority
             prev_auth == prev.stats.by_authority
             all_authorities == ODKeys(current_auth) \cup ODKeys(prev_auth)
             changed == {auth \in all_authorities :
                            ODGet(current_auth, auth, 0) # ODGet(prev_auth, auth, 0)}
         IN  [total_change |-> cur.total - prev.stats.total,
              is_first_week |-> FALSE,
              authority_changes |->
                 [auth \in changed |->
                    [previous |-> ODGet(prev_auth, auth, 0),
                     current |-> ODGet(current_auth, auth, 0),
                     change |-> ODGet(current_auth, auth, 0)
                                  - ODGet(prev_auth, auth, 0)]]]

\* only the last entry of the log is looked at
ExistingWeekLastOnly(weeks, week_key) ==
    IF weeks # <<>> /\ weeks[Len(weeks)].week = week_key
    THEN weeks[Len(weeks)]
    ELSE NoneEntry

\* next((w for w in history["weeks"] if w["week"] == week_key), None)
ExistingWeek(weeks, week_key) ==
    IF \E i \in 1..Len(weeks) : weeks[i].week = week_key
    THEN LET first == CHOOSE i \in 1..Len(weeks) :
                         /\ weeks[i].week = week_key
                         /\ \A j \in 1..(i - 1) : weeks[j].week # week_key
         IN  weeks[first]
    ELSE NoneEntry

\* history["weeks"][-1] if history["weeks"] else None
PreviousWeek(weeks) == IF weeks # <<>> THEN weeks[Len(weeks)] ELSE NoneEntry

\* the last position, whatever x is
IndexOfLast(weeks, x) == Len(weeks)

\* list.index(x): the position of the first element equal to x
IndexOf(weeks, x) ==
    CHOOSE i \in 1..Len(weeks) :
        weeks[i] = x /\ \A j \in 1..(i - 1) : weeks[j] # x

\* the entry is appended, whether or not its week is there
UpsertAppendOnly(weeks, existing_week, week_entry) == Append(weeks, week_entry)

\* if existing_week: weeks[idx] = week_entry  else: weeks.append(week_entry)
Upsert(weeks, existing_week, week_entry) ==
    IF ~Falsy(existing_week)
    THEN [weeks EXCEPT ![IndexOf(weeks, existing_week)] = week_entry]
    ELSE Append(weeks, week_entry)

WeekEntry(week_key, instant, stats, chg) ==
    [week |-> week_key, date |-> instant.t, timestamp |-> instant.t,
     stats |-> stats, changes |-> chg]

\* the metadata update and the dump of the whole log
Persisted(history, weeks, instant) ==
    [metadata |->
        [k \in DOMAIN history.metadata \cup {"last_updated", "total_weeks"} |->
            IF k = "last_updated" THEN instant.t
            ELSE IF k = "total_weeks" THEN Len(weeks)
            ELSE history.metadata[k]],
     weeks |-> weeks]

---------------------------------------------------------------------------
(* Inputs *)

Located == [latitude |-> "52.0", longitude |-> "4.0"]

\* both coordinates present, one of them null, one of them absent, both absent
CoordChoices ==
    {Located,
     [latitude |-> None, longitude |-> "4.0"],
     [latitude |-> "52.0"],
     [longitude |-> None]}

NameChoices ==
    {EmptyDict, [roadRegulatorName |-> "A"], [roadRegulatorName |-> "B"]}

\* category lists in both key spellings, with a repeated category, and with the
\* identifiers on which Table A and Table B differ
CategoryLists ==
    {<<[id |-> "PBC:EMERGENCY", name |-> "Emergency"]>>,
     <<[categoryId |-> "PBC:EMERGENCY"]>>,
     <<[categoryId |-> "PBC:EMERGENCY"], [categoryId |-> "PBC:EMERGENCY"]>>,
     <<[categoryId |-> "PBC:PUBLIC_TRANSPORT"], [categoryId |-> "PBC:LOGISTICS"]>>,
     <<[id |-> "PBC:PUBLIC"], [id |-> "PBC:LOGISTICS"]>>,
     <<>>}

\* component lists in both key spellings, with an empty and an absent
\* organization name, and with the TLC component second
ComponentLists ==
    {<<[typeName |-> "TLC", organizationName |-> "X"]>>,
     <<[componentTypeName |-> "TLC", organizationName |-> "X"]>>,
     <<[componentTypeName |-> "TLC", organizationName |-> ""]>>,
     <<[componentTypeName |-> "TLC"]>>,
     <<[componentTypeName |-> "RIS", organizationName |-> "Y"],
       [componentTypeName |-> "TLC", organizationName |-> "Y"]>>,
     <<[typeName |-> "RIS", organizationName |-> "Y"],
       [typeName |-> "TLC", organizationName |-> "X"],
       [typeName |-> "TLC", organizationName |-> "Y"]>>}

NamedA == Located @@ [roadRegulatorName |-> "A"]

Subjects ==
    {c @@ n : c \in CoordChoices, n \in NameChoices}
    \cup {NamedA @@ [categories |-> cats] : cats \in CategoryLists}
    \cup {NamedA @@ [subjectComponents |-> comps] : comps \in ComponentLists}

DataLists == SeqsUpTo(Subjects, MaxRecords)

\* the subjects of the tracker runs: only their authority matters to the log
NameLists == SeqsUpTo(NameChoices, MaxRecords)

SubjectA == NamedA @@ [id |-> "a"]
SubjectB == Located @@ [roadRegulatorName |-> "B", id |-> "b"]
Responses == {<<>>, <<SubjectA>>, <<SubjectA, SubjectB>>}

Instants == {[isoYear |-> 2024, isoWeek |-> 52],
             [isoYear |-> 2025, isoWeek |-> 1],
             [isoYear |-> 2025, isoWeek |-> 10]}

Answers == {ArrayResponse(d) : d \in served} \cup {FetchErrorResponse}

---------------------------------------------------------------------------
(* State *)

NoCall ==
    [op |-> "none", use_cache |-> FALSE, cacheBefore |-> NoFile,
     historyBefore |-> NoFile, raised |-> FALSE, ret |-> <<>>,
     netCalls |-> 0, cacheWrites |-> 0, netFailed |-> FALSE,
     week_key |-> None,
     existing_week |-> NoneEntry, previous_week |-> NoneEntry,
     week_entry |-> NoneEntry]

NoOut == [op |-> "none"]

\* a cache file written by an earlier version: no 'locations' key
OldCache == File([fetched_at |-> 0, source |-> Url])

Start == [isoYear |-> 2024, isoWeek |-> 52, t |-> 0]

\* a history file of earlier runs: two weeks, not in calendar order, the first
\* of them a week the clock of the model can be in again
EarlierLog ==
    LET first == WeekEntry("2025-W10", Start, calculate_stats(<<SubjectB>>),
                           calculate_changes(calculate_stats(<<SubjectB>>), NoneEntry))
        second == WeekEntry("2023-W07", Start, calculate_stats(<<SubjectA>>),
                            calculate_changes(calculate_stats(<<SubjectA>>), first))
    IN  [metadata |-> [created_at |-> 0, source |-> "UDAP",
                       source_url |-> "https://map.udap.nl",
                       last_updated |-> 0, total_weeks |-> 2],
         weeks |-> <<first, second>>]

Idle ==
    /\ out = NoOut
    /\ geojsonFile = NoFile
    /\ summaryFile = NoFile
    /\ current = NoneEntry
    /\ previous = NoneEntry
    /\ changes = NoneEntry

Init ==
    /\ served = Responses
    /\ cacheFile \in {NoFile, CorruptFile, OldCache,
                      File(Envelope(<<SubjectB>>, Start))}
    /\ historyFile \in {NoFile, File(EarlierLog)}
    /\ now = Start
    /\ last = NoCall
    /\ Idle

\* datetime.now() in a call: a later instant than any before, in any week
At(instant) ==
    [isoYear |-> instant.isoYear, isoWeek |-> instant.isoWeek, t |-> now.t + 1]

\* a call of fetch_udap_data(use_cache)
CallFetchUdapData(use_cache, response) ==
    LET instant == At(now)
        r == fetch_udap_data(use_cache, cacheFile, response, instant)
    IN  /\ now.t < MaxCalls
        /\ now' = instant
        /\ cacheFile' = r.cache
        /\ last' = [NoCall EXCEPT
                      !.op = "fetch_udap_data", !.use_cache = use_cache,
                      !.cacheBefore = cacheFile, !.historyBefore = historyFile,
                      !.raised = r.raised, !.ret = r.ret,
                      !.netCalls = r.netCalls, !.cacheWrites = r.cacheWrites,
                      !.netFailed = r.netCalls > 0 /\ IsError(response)]
        /\ UNCHANGED <<served, historyFile, out, geojsonFile, summaryFile,
                       current, previous, changes>>

\* a run of update_stats_history.main at the instant `instant`
main(instant, response) ==
    LET r == fetch_udap_data(FALSE, cacheFile, response, instant)
        stats == calculate_stats(r.ret)
        history == load_history(historyFile, instant)
        week_key == get_week_key(instant)
        existing_week == ExistingWeek(history.weeks, week_key)
        previous_week == PreviousWeek(history.weeks)
        chg == calculate_changes(stats, previous_week)
        week_entry == WeekEntry(week_key, instant, stats, chg)
        weeks == Upsert(history.weeks, existing_week, week_entry)
        called == [NoCall EXCEPT
                      !.op = "main", !.cacheBefore = cacheFile,
                      !.historyBefore = historyFile, !.raised = r.raised,
                      !.ret = r.ret, !.netCalls = r.netCalls,
                      !.cacheWrites = r.cacheWrites,
                      !.netFailed = r.netCalls > 0 /\ IsError(response)]
    IN  /\ now.t < MaxCalls
        /\ now' = instant
        /\ cacheFile' = r.cache
        /\ IF r.raised
           THEN /\ historyFile' = historyFile
                /\ last' = called
           ELSE /\ historyFile' = File(Persisted(history, weeks, instant))
                /\ last' = [called EXCEPT
                              !.week_key = week_key,
                              !.existing_week = existing_week,
                              !.previous_week = previous_week,
                              !.week_entry = week_entry]
        /\ UNCHANGED <<served, out, geojsonFile, summaryFile,
                       current, previous, changes>>

Next ==
    \/ \E use_cache \in BOOLEAN, response \in Answers :
          CallFetchUdapData(use_cache, response)
    \/ \E i \in Instants, response \in Answers : main(At(i), response)

Spec == Init /\ [][Next]_vars

---------------------------------------------------------------------------
(* The statistics and table paths over one data set *)

InitStats ==
    /\ served \in {{d} : d \in DataLists}
    /\ cacheFile = NoFile
    /\ historyFile = NoFile
    /\ now = Start
    /\ last = NoCall
    /\ Idle

\* calculate_stats(data) on the array the endpoint serves
CallCalculateStats(data) ==
    /\ out' = [op |-> "calculate_stats", locations |-> data,
               stats |-> calculate_stats(data)]
    /\ UNCHANGED <<served, cacheFile, historyFile, now, last, geojsonFile,
                   summaryFile, current, previous, changes>>

\* get_traffic_lights_gdf(use_cache); a failed fetch raises out of the call and
\* changes nothing
get_traffic_lights_gdf(use_cache, response) ==
    LET r == fetch_udap_data(use_cache, cacheFile, response, now)
    IN  /\ ~r.raised
        /\ cacheFile' = r.cache
        /\ out' = [op |-> "get_traffic_lights_gdf", locations |-> r.ret,
                   gdf |-> BuildGdf(r.ret)]
        /\ UNCHANGED <<served, historyFile, now, last, geojsonFile,
                       summaryFile, current, previous, changes>>

\* get_statistics()
get_statistics(response) ==
    LET r == fetch_udap_data(TRUE, cacheFile, response, now)
        gdf == BuildGdf(r.ret)
    IN  /\ ~r.raised
        /\ cacheFile' = r.cache
        /\ out' = [op |-> "get_statistics", locations |-> r.ret,
                   gdf |-> gdf, stats |-> Statistics(gdf)]
        /\ UNCHANGED <<served, historyFile, now, last, geojsonFile,
                       summaryFile, current, previous, changes>>

\* generate_geojson(force_refresh): the table, the early return on an empty
\* table, the feature file, then get_statistics() (which reads the cache the
\* first call left) and the summary file
generate_geojson(force_refresh, response) ==
    LET r == fetch_udap_data(~force_refresh, cacheFile, response, now)
        gdf == BuildGdf(r.ret)
        again == fetch_udap_data(TRUE, r.cache, response, now)
        stats == Statistics(BuildGdf(again.ret))
    IN  /\ ~r.raised
        /\ IF Len(gdf) = 0
           THEN /\ cacheFile' = r.cache
                /\ UNCHANGED <<geojsonFile, summaryFile>>
           ELSE /\ ~again.raised
                /\ "by_authority" \in DOMAIN stats
                /\ cacheFile' = again.cache
                /\ geojsonFile' = File(GeojsonOf(gdf))
                /\ summaryFile' = File(SummaryOf(gdf, stats))
        /\ out' = [op |-> "generate_geojson", locations |-> r.ret, gdf |-> gdf,
                   written |-> Len(gdf) # 0]
        /\ UNCHANGED <<served, historyFile, now, last, current, previous, changes>>

NextStats ==
    \/ \E data \in served : CallCalculateStats(data)
    \/ \E use_cache \in BOOLEAN, response \in Answers :
          get_traffic_lights_gdf(use_cache, response)
    \/ \E response \in Answers : get_statistics(response)
    \/ \E force_refresh \in BOOLEAN, response \in Answers :
          generate_geojson(force_refresh, response)

SpecStats == InitStats /\ [][NextStats]_vars

---------------------------------------------------------------------------
(* calculate_changes over pairs of snapshots *)

Snapshots == {calculate_stats(d) : d \in NameLists}

PriorEntries ==
    {WeekEntry("2024-W52", Start, snap, [total_change |-> 0, is_first_week |-> TRUE]) :
        snap \in Snapshots}

InitChanges ==
    /\ served = Responses
    /\ cacheFile = NoFile
    /\ historyFile = NoFile
    /\ now = Start
    /\ last = NoCall
    /\ out = NoOut
    /\ geojsonFile = NoFile
    /\ summaryFile = NoFile
    /\ current \in Snapshots
    /\ previous \in PriorEntries \cup {NoneEntry}
    /\ changes = NoneEntry

CallCalculateChanges ==
    /\ changes' = calculate_changes(current, previous)
    /\ UNCHANGED <<served, cacheFile, historyFile, now, last, out, geojsonFile,
                   summaryFile, current, previous>>

NextChanges == CallCalculateChanges

SpecChanges == InitChanges /\ [][NextChanges]_vars

---------------------------------------------------------------------------
(* Properties of the history tracker *)

Weeks(file) == IF file.state = "file" THEN file.content.weeks ELSE <<>>

Positions(weeks, week_key) == {i \in 1..Len(weeks) : weeks[i].week = week_key}

RunDone == last.op = "main" /\ ~last.raised

\* C1: after any sequence of tracker runs, in any order of week keys, from an
\* absent history file or from a log without duplicate week keys, the
\* persisted weeks hold at most one entry per week key.
C1_AtMostOneEntryPerWeek ==
    LET weeks == Weeks(historyFile)
    IN  \A i, j \in 1..Len(weeks) : weeks[i].week = weeks[j].week => i = j

\* a run found its week in a log of several weeks and the log is persisted
C1_Witness ==
    /\ RunDone
    /\ ~Falsy(last.existing_week)
    /\ Len(Weeks(historyFile)) >= 3

\* C2: a second run in the same ISO week on the same data, right after a
\* first, leaves the length of the week sequence as the first run left it, and
\* the one entry of that week is the entry the second run computed.
C2_UpsertIdempotent ==
    [][(/\ RunDone
        /\ last'.op = "main" /\ ~last'.raised
        /\ last' # last
        /\ last'.week_key = last.week_key
        /\ last'.ret = last.ret)
       => LET after == Weeks(historyFile')
          IN  /\ Len(after) = Len(Weeks(historyFile))
              /\ Cardinality(Positions(after, last'.week_key)) = 1
              /\ \A i \in Positions(after, last'.week_key) :
                    after[i] = last'.week_entry]_vars

\* the run replaced the entry that the call right before it wrote for the
\* same week from the same data, in a log of several weeks
C2_Witness ==
    /\ RunDone
    /\ ~Falsy(last.existing_week)
    /\ last.existing_week.timestamp = last.week_entry.timestamp - 1
    /\ last.existing_week.stats = last.week_entry.stats
    /\ last.ret # <<>>
    /\ Len(Weeks(historyFile)) >= 2

\* C3: the entry a run uses as `previous` in the delta computation is of
\* another week than the run's own, also in a re-run within a week.
C3_PreviousIsAnotherWeek ==
    (RunDone /\ ~Falsy(last.previous_week))
        => last.previous_week.week # last.week_key

\* C10: a run changes the week sequence in one position: the entry of the
\* run's week is replaced where it stands and the length stays, or else the
\* new entry is appended and the length grows by one; every other entry stays
\* where it was, and total_weeks is the resulting length.
C10_UpsertFrame ==
    RunDone =>
        LET before == Weeks(last.historyBefore)
            after == Weeks(historyFile)
            at == Positions(before, last.week_key)
        IN  /\ historyFile.state = "file"
            /\ historyFile.content.metadata.total_weeks = Len(after)
            /\ IF at # {}
               THEN /\ Len(after) = Len(before)
                    /\ \E idx \in at :
                          /\ after[idx] = last.week_entry
                          /\ \A j \in 1..Len(before) :
                                j # idx => after[j] = before[j]
               ELSE /\ Len(after) = Len(before) + 1
                    /\ after[Len(after)] = last.week_entry
                    /\ \A j \in 1..Len(before) : after[j] = before[j]

\* a run replaced an entry that was not the last of the log
C10_Witness ==
    /\ RunDone
    /\ Positions(Weeks(last.historyBefore), last.week_key) # {}
    /\ Weeks(last.historyBefore)[Len(Weeks(last.historyBefore))].week
          # last.week_key
    /\ last.week_entry \in {Weeks(historyFile)[i] : i \in 1..Len(Weeks(historyFile))}

---------------------------------------------------------------------------
(* Properties of the record loader *)

Fetched == last.op \in {"fetch_udap_data", "main"}

UsedCache == (last.op = "fetch_udap_data" /\ last.use_cache)

\* C7: with use_cache and a readable cache file, fetch_udap_data returns the
\* cached locations, asks the network nothing and leaves the cache file as it
\* was; otherwise it makes exactly one network call and, when that call
\* answers, writes the envelope of the fetched array and returns that array.
C7_LoaderProtocol ==
    Fetched =>
        IF UsedCache /\ last.cacheBefore.state = "file"
        THEN /\ ~last.raised
             /\ last.netCalls = 0
             /\ last.cacheWrites = 0
             /\ cacheFile = last.cacheBefore
             /\ last.ret = IF "locations" \in DOMAIN last.cacheBefore.content
                           THEN last.cacheBefore.content.locations
                           ELSE <<>>
        ELSE /\ last.netCalls = 1
             /\ ~last.raised =>
                   /\ last.cacheWrites = 1
                   /\ cacheFile.state = "file"
                   /\ DOMAIN cacheFile.content =
                         {"fetched_at", "source", "total_count", "locations"}
                   /\ cacheFile.content.locations = last.ret
                   /\ cacheFile.content.total_count = Len(last.ret)
                   /\ last.ret \in served

\* a cache hit on a cache that holds subjects
C7_Witness ==
    /\ UsedCache
    /\ last.cacheBefore.state = "file"
    /\ "locations" \in DOMAIN last.cacheBefore.content
    /\ last.ret # <<>>
    /\ last.netCalls = 0

\* C11: when the network fetch of a tracker run or of fetch_udap_data (on a
\* miss or a refresh) fails, the error is raised after that one attempt and
\* neither the cache file nor the history file is written: both hold what
\* they held before the call.
C11_FailedFetchChangesNothing ==
    (Fetched /\ last.netFailed) =>
        /\ last.raised
        /\ last.netCalls = 1
        /\ last.cacheWrites = 0
        /\ cacheFile = last.cacheBefore
        /\ historyFile = last.historyBefore

\* a tracker run whose fetch failed, with a cache file and a history file of
\* earlier runs on disk
C11_Witness ==
    /\ last.op = "main"
    /\ last.netFailed
    /\ last.cacheBefore.state = "file"
    /\ Weeks(last.historyBefore) # <<>>
    /\ last.historyBefore.content.metadata.last_updated > 0

---------------------------------------------------------------------------
(* Properties of calculate_changes *)

\* the count of an authority in a by_authority mapping, 0 when it is missing
CountOf(by_authority, name) ==
    SumSeq([i \in 1..Len(by_authority) |->
              IF by_authority[i][1] = name THEN by_authority[i][2] ELSE 0])

NamesOf(by_authority) == {by_authority[i][1] : i \in 1..Len(by_authority)}

ChangesComputed == changes # NoneEntry

\* C4: against a prior entry, calculate_changes gives is_first_week = false,
\* total_change = current.total - prior.total, and authority_changes keyed by
\* exactly the authorities of either snapshot whose counts differ (a missing
\* authority counting 0), each with previous, current and change.
C4_DeltaCorrect ==
    (ChangesComputed /\ previous # NoneEntry) =>
        LET cur == current.by_authority
            old == previous.stats.by_authority
            differing == {n \in NamesOf(cur) \cup NamesOf(old) :
                             CountOf(cur, n) # CountOf(old, n)}
        IN  /\ changes.is_first_week = FALSE
            /\ changes.total_change = current.total - previous.stats.total
            /\ DOMAIN changes.authority_changes = differing
            /\ \A n \in differing :
                  changes.authority_changes[n] =
                     [previous |-> CountOf(old, n), current |-> CountOf(cur, n),
                      change |-> CountOf(cur, n) - CountOf(old, n)]

\* one authority unchanged, one that only the prior snapshot holds, one that
\* only the current snapshot holds
C4_Witness ==
    /\ ChangesComputed
    /\ previous # NoneEntry
    /\ \E n \in NamesOf(current.by_authority) :
          CountOf(previous.stats.by_authority, n) = CountOf(current.by_authority, n)
    /\ \E n \in DOMAIN changes.authority_changes :
          n \notin NamesOf(current.by_authority)

---------------------------------------------------------------------------
(* Properties of the statistics and table paths *)

RECURSIVE FnSum(_)
FnSum(f) ==
    IF DOMAIN f = {} THEN 0
    ELSE LET k == CHOOSE x \in DOMAIN f : TRUE
         IN  f[k] + FnSum([x \in DOMAIN f \ {k} |-> f[x]])

HistoryStats == out.op = "calculate_stats"
TableStats == out.op = "get_statistics" /\ "by_authority" \in DOMAIN out.stats

\* the first component that the history path takes for the TLC, if any
HistoryTlc(item) ==
    LET comps == Get(item, "subjectComponents", <<>>)
        tlc == {i \in 1..Len(comps) : Get(comps[i], "componentTypeName", None) = "TLC"}
    IN  {comps[i] : i \in {i \in tlc : \A j \in tlc : i <= j}}

\* the records that the history path counts under an organization
CountedByOrganization(data) ==
    {i \in 1..Len(data) :
        \E c \in HistoryTlc(data[i]) :
            Truthy(Get(c, "organizationName", "Unknown"))}

\* C5 as stated: in the history path and in the table path the counts of
\* by_authority sum to total and the counts of by_tlc_organization sum to total.
C5_GroupingsSumToTotal ==
    /\ HistoryStats =>
          /\ ODSum(out.stats.by_authority) = out.stats.total
          /\ ODSum(out.stats.by_tlc_organization) = out.stats.total
    /\ TableStats =>
          /\ FnSum(out.stats.by_authority) = out.stats.total
          /\ FnSum(out.stats.by_tlc_organization) = out.stats.total

\* C5 as amended: by_authority sums to total in both paths and
\* by_tlc_organization sums to total in the table path; in the history path
\* by_tlc_organization sums to the number of records whose first component of
\* componentTypeName TLC has a non-empty organization name, at most total.
C5_GroupingsSumAmended ==
    /\ HistoryStats =>
          /\ out.stats.total = Len(out.locations)
          /\ ODSum(out.stats.by_authority) = out.stats.total
          /\ ODSum(out.stats.by_tlc_organization)
                = Cardinality(CountedByOrganization(out.locations))
          /\ ODSum(out.stats.by_tlc_organization) <= out.stats.total
    /\ TableStats =>
          /\ out.stats.total = Len(out.gdf)
          /\ FnSum(out.stats.by_authority) = out.stats.total
          /\ FnSum(out.stats.by_tlc_organization) = out.stats.total

\* the history path counted two records of one authority, one of them under
\* an organization and the other under none
C5_Witness ==
    /\ HistoryStats
    /\ out.stats.total = 2
    /\ Len(out.stats.by_authority) = 1
    /\ ODSum(out.stats.by_tlc_organization) = 1

Present(loc, key) == key \in DOMAIN loc /\ loc[key] # None

BothCoordinates(loc) == Present(loc, "latitude") /\ Present(loc, "longitude")

TableBuilt == out.op \in {"get_traffic_lights_gdf", "get_statistics", "generate_geojson"}

\* how many elements of the sequence stem from the subject at position i
StemFrom(elements, i) ==
    Cardinality({k \in 1..Len(elements) : elements[k].index = i})

\* C6: a subject whose latitude or longitude is absent or null has no row in
\* the table of get_traffic_lights_gdf and no feature in the GeoJSON that
\* generate_geojson writes; a subject with both has exactly one of each.
C6_Exclusion ==
    /\ TableBuilt =>
          \A i \in 1..Len(out.locations) :
             StemFrom(out.gdf, i) = IF BothCoordinates(out.locations[i]) THEN 1 ELSE 0
    /\ (out.op = "generate_geojson" /\ out.written) =>
          /\ geojsonFile.state = "file"
          /\ \A i \in 1..Len(out.locations) :
                StemFrom(geojsonFile.content.features, i)
                   = IF BothCoordinates(out.locations[i]) THEN 1 ELSE 0
          /\ \A k \in 1..Len(geojsonFile.content.features) :
                geojsonFile.content.features[k].index \in 1..Len(out.locations)
    /\ (out.op = "generate_geojson" /\ ~out.written) =>
          \A i \in 1..Len(out.locations) : ~BothCoordinates(out.locations[i])

\* a GeoJSON written from a subject with a latitude and no longitude and a
\* subject with both
C6_Witness ==
    /\ out.op = "generate_geojson"
    /\ out.written
    /\ Len(geojsonFile.content.features) = 1
    /\ \E i \in 1..Len(out.locations) :
          /\ Present(out.locations[i], "latitude")
          /\ ~Present(out.locations[i], "longitude")

\* a category of the subject carries the identifier under either spelling
HasCategory(loc, ident) ==
    LET cats == Get(loc, "categories", <<>>)
    IN  \E i \in 1..Len(cats) :
           Get(cats[i], "id", None) = ident \/ Get(cats[i], "categoryId", None) = ident

\* the type name of a component under either spelling
TypeNameOf(component) ==
    IF "typeName" \in DOMAIN component THEN component.typeName
    ELSE Get(component, "componentTypeName", None)

\* the first TLC component of the subject under either spelling, if any
FirstTlc(loc) ==
    LET comps == Get(loc, "subjectComponents", <<>>)
        tlc == {i \in 1..Len(comps) : TypeNameOf(comps[i]) = "TLC"}
    IN  {comps[i] : i \in {i \in tlc : \A j \in tlc : i <= j}}

\* C8: a category under `id` or under `categoryId` sets the priority flag,
\* and a component typed under `typeName` or under `componentTypeName` is
\* matched for the organization, in the table path and in the history path.
C8_SynonymsHandled ==
    /\ TableBuilt =>
          \A k \in 1..Len(out.gdf) :
             LET loc == out.locations[out.gdf[k].index]
             IN  /\ out.gdf[k].has_emergency = HasCategory(loc, "PBC:EMERGENCY")
                 /\ out.gdf[k].has_logistics = HasCategory(loc, "PBC:LOGISTICS")
                 /\ \A c \in FirstTlc(loc) :
                       out.gdf[k].tlc_organization = Get(c, "organizationName", "")
    /\ HistoryStats =>
          /\ (out.stats.by_priority.emergency > 0)
                = (\E i \in 1..Len(out.locations) :
                      HasCategory(out.locations[i], "PBC:EMERGENCY"))
          /\ \A i \in 1..Len(out.locations) :
                \A c \in FirstTlc(out.locations[i]) :
                   Truthy(Get(c, "organizationName", "Unknown")) =>
                      HasKey(out.stats.by_tlc_organization,
                             Get(c, "organizationName", "Unknown"))

TableB ==
    [emergency |-> "PBC:EMERGENCY", road_operator |-> "PBC:ROAD_OPERATOR",
     public_transport |-> "PBC:PUBLIC_TRANSPORT", logistics |-> "PBC:LOGISTICS",
     agriculture |-> "PBC:AGRICULTURE"]

\* the records whose categories hold the identifier (under categoryId)
RecordsWith(data, ident) ==
    {i \in 1..Len(data) :
        LET cats == Get(data[i], "categories", <<>>)
        IN  \E j \in 1..Len(cats) : Get(cats[j], "categoryId", "") = ident}

\* C9: each by_priority count of calculate_stats is the number of records
\* whose categories hold the Table B identifier of the flag, also when a
\* record lists a category more than once; so each count is at most total.
C9_PriorityCountsRecords ==
    HistoryStats =>
        \A flag \in DOMAIN TableB :
           /\ out.stats.by_priority[flag]
                 = Cardinality(RecordsWith(out.locations, TableB[flag]))
           /\ out.stats.by_priority[flag] <= out.stats.total

====
